---- MODULE Spec2Model ----
(***************************************************************************)
(* A model of obsidian-preview (src/obsidian-preview.go): the directory    *)
(* scanner, the build (rescanDirectory followed by generateHTML), the      *)
(* debounced watch loop and the artifact file the build writes.            *)
(*                                                                         *)
(* Goroutines are interleaved at the points where they touch shared state  *)
(* (the globals mdFiles and fileTree, the lock mu, the filesystem, the     *)
(* watcher's channels, the debounce timer).  Time is abstracted: a timer   *)
(* that is armed may fire at any later moment, a filesystem change may     *)
(* happen at any moment.                                                   *)
(***************************************************************************)
EXTENDS Integers, Sequences, FiniteSets, TLC

(***************************************************************************)
(* Bounds of the model.                                                    *)
(***************************************************************************)
\* filesystem changes made by the outside world during one run
MaxChanges == 2
\* rebuilds started by the debounce timer
MaxBuilds == 2
\* failures the environment injects during one run: a directory or a file that
\* cannot be read, a destination that cannot be created or written, a watcher
\* that cannot be set up, an error on the watcher's error channel
MaxFaults == 1

(***************************************************************************)
(* Names and their bytes.  A file name is a string; the code inspects its  *)
(* bytes (HasPrefix, HasSuffix, ToLower, <), so every name of the model    *)
(* comes with its byte sequence.                                           *)
(***************************************************************************)
NameBytes ==
    ( "a.md"       :> <<97, 46, 109, 100>> ) @@
    ( "b.md"       :> <<98, 46, 109, 100>> ) @@
    ( "c.md"       :> <<99, 46, 109, 100>> ) @@
    ( "d"          :> <<100>> ) @@
    ( "n"          :> <<110>> ) @@
    ( "index.html" :> <<105, 110, 100, 101, 120, 46, 104, 116, 109, 108>> ) @@
    ( "B.MD"       :> <<66, 46, 77, 68>> ) @@
    ( "x.txt"      :> <<120, 46, 116, 120, 116>> ) @@
    ( ".h.md"      :> <<46, 104, 46, 109, 100>> ) @@
    ( "k.md"       :> <<107, 46, 109, 100>> ) @@
    ( "g.md"       :> <<103, 46, 109, 100>> ) @@
    ( "m.md"       :> <<109, 46, 109, 100>> ) @@
    ( "h.md"       :> <<104, 46, 109, 100>> ) @@
    ( "e"          :> <<101>> ) @@
    ( "s"          :> <<115>> ) @@
    ( ".o"         :> <<46, 111>> ) @@
    ( ".git"       :> <<46, 103, 105, 116>> ) @@
    ( "node_modules" :>
        <<110, 111, 100, 101, 95, 109, 111, 100, 117, 108, 101, 115>> )

Bytes(name) == NameBytes[name]

\* strings.ToLower on one byte
ToLowerByte(b) == IF b >= 65 /\ b <= 90 THEN b + 32 ELSE b

ToLower(bs) == [i \in 1..Len(bs) |-> ToLowerByte(bs[i])]

HasPrefix(bs, pre) ==
    Len(bs) >= Len(pre) /\ SubSeq(bs, 1, Len(pre)) = pre

HasSuffix(bs, suf) ==
    Len(bs) >= Len(suf) /\ SubSeq(bs, Len(bs) - Len(suf) + 1, Len(bs)) = suf

DotBytes == <<46>>
MdSuffix == <<46, 109, 100>>

\* Go's < on strings: byte-wise lexicographic order
RECURSIVE BytesLess(_, _)
BytesLess(x, y) ==
    IF y = <<>> THEN FALSE
    ELSE IF x = <<>> THEN TRUE
    ELSE IF x[1] # y[1] THEN x[1] < y[1]
    ELSE BytesLess(Tail(x), Tail(y))

\* strings.HasPrefix(name, ".") && name != "."
IsHidden(name) == HasPrefix(Bytes(name), DotBytes) /\ Bytes(name) # DotBytes

\* a check that knows no reserved name
IsReservedDirNone(name) == FALSE

\* name == "node_modules" || name == ".git"
IsReservedDir(name) == name \in {"node_modules", ".git"}

\* strings.HasSuffix(strings.ToLower(name), ".md")
IsMarkdown(name) == HasSuffix(ToLower(Bytes(name)), MdSuffix)

(***************************************************************************)
(* The filesystem as the scanner sees it.  A path of the filesystem is the *)
(* sequence of its names below the root (the root itself is << >>).  An    *)
(* image F of the filesystem is a record:                                  *)
(*   F.ex    the paths that exist,                                         *)
(*   F.dirs  those of them that are directories,                           *)
(*   F.bad   the directories whose os.ReadDir fails.                       *)
(***************************************************************************)
BaseName(p) == p[Len(p)]

\* filepath.Join(dir, name), with the special case dir == "." -> name
RECURSIVE PathString(_)
PathString(p) ==
    IF Len(p) = 1 THEN p[1]
    ELSE PathString(SubSeq(p, 1, Len(p) - 1)) \o "/" \o p[Len(p)]

\* os.ReadDir: the entries directly below dir
ReadDir(dir, F) ==
    {p \in F.ex : Len(p) = Len(dir) + 1 /\ SubSeq(p, 1, Len(dir)) = dir}

\* a comparison that forgets the kind of the entries
EntryLessByName(e1, e2, F) ==
    BytesLess(Bytes(BaseName(e1)), Bytes(BaseName(e2)))

\* the comparison given to sort.Slice: directories first, then by name
EntryLess(e1, e2, F) ==
    IF (e1 \in F.dirs) # (e2 \in F.dirs)
    THEN e1 \in F.dirs
    ELSE BytesLess(Bytes(BaseName(e1)), Bytes(BaseName(e2)))

\* sort.Slice(entries, less): the entries in the order of EntryLess
RECURSIVE SortEntries(_, _)
SortEntries(S, F) ==
    IF S = {} THEN <<>>
    ELSE LET m == CHOOSE e \in S : \A o \in S \ {e} : EntryLess(e, o, F)
         IN  <<m>> \o SortEntries(S \ {m}, F)

(***************************************************************************)
(* scanDirectory(dir, parent).  The result is a record                     *)
(*   err       the error return (TRUE: os.ReadDir(dir) failed),            *)
(*   children  what the call appended to parent.Children,                  *)
(*   files     what the call appended to mdFiles.                          *)
(***************************************************************************)
FileNode(name, path, isDir, children) ==
    [Name |-> name, Path |-> path, IsDir |-> isDir, Children |-> children]

\* a scan that gives up when a directory anywhere below dir cannot be read
ReadDirFailsBelow(dir, F) ==
    \E b \in F.bad : Len(b) >= Len(dir) /\ SubSeq(b, 1, Len(dir)) = dir

\* entries, err := os.ReadDir(dir); if err != nil { return err }
ReadDirFails(dir, F) == dir \in F.bad

\* a scan that keeps every directory it could read
KeepNodeAlways(children) == TRUE

\* if len(node.Children) > 0: the directory node is appended to its parent
KeepNode(children) == Len(children) > 0

RECURSIVE scanDirectory(_, _)
RECURSIVE scanEntries(_, _, _, _)

\* the loop "for _, entry := range entries" from entry i on, with the
\* children and files appended so far
scanEntries(entries, i, acc, F) ==
    IF i > Len(entries) THEN acc
    ELSE
      LET entry == entries[i]
          name  == BaseName(entry)
          isDir == entry \in F.dirs
          path  == PathString(entry)
      IN
      IF IsHidden(name) THEN scanEntries(entries, i + 1, acc, F)
      ELSE IF isDir /\ IsReservedDir(name) THEN scanEntries(entries, i + 1, acc, F)
      ELSE IF isDir THEN
        LET sub == scanDirectory(entry, F) IN
        IF sub.err THEN scanEntries(entries, i + 1, acc, F)
        ELSE IF KeepNode(sub.children) THEN
          scanEntries(entries, i + 1,
            [children |-> Append(acc.children,
                                 FileNode(name, path, TRUE, sub.children)),
             files |-> acc.files \o sub.files], F)
        ELSE
          \* the files of a pruned directory: none, its children are empty
          scanEntries(entries, i + 1,
            [children |-> acc.children, files |-> acc.files \o sub.files], F)
      ELSE IF IsMarkdown(name) THEN
        scanEntries(entries, i + 1,
          [children |-> Append(acc.children, FileNode(name, path, FALSE, <<>>)),
           files |-> Append(acc.files, path)], F)
      ELSE scanEntries(entries, i + 1, acc, F)

scanDirectory(dir, F) ==
    IF ReadDirFails(dir, F)
    THEN [err |-> TRUE, children |-> <<>>, files |-> <<>>]
    ELSE LET r == scanEntries(SortEntries(ReadDir(dir, F), F), 1,
                              [children |-> <<>>, files |-> <<>>], F)
         IN  [err |-> FALSE, children |-> r.children, files |-> r.files]

\* the paths of the file nodes of a list of nodes, each as often as it occurs
RECURSIVE FilePathsOf(_)
FilePathsOf(nodes) ==
    IF nodes = <<>> THEN <<>>
    ELSE LET hd == Head(nodes)
         IN  (IF hd.IsDir THEN FilePathsOf(hd.Children) ELSE <<hd.Path>>)
             \o FilePathsOf(Tail(nodes))

SeqRange(s) == {s[i] : i \in 1..Len(s)}

(***************************************************************************)
(* The directory the program runs in.  The root always exists; below it:   *)
(* a markdown file a.md, a directory d (there from the start) with b.md,   *)
(* a directory n (created while the program runs) with c.md, and the       *)
(* artifact index.html.                                                    *)
(***************************************************************************)
Root == <<>>
MdPaths == {<<"a.md">>, <<"d", "b.md">>, <<"n", "c.md">>}
DirPaths == {<<"d">>, <<"n">>}
ArtifactPath == <<"index.html">>
outputFile == PathString(ArtifactPath)

Parent(p) == SubSeq(p, 1, Len(p) - 1)

VARIABLES
    fs,         \* filesystem: markdown path -> 0 (absent) or the stamp of its content
    dirsEx,     \* filesystem: the directories of DirPaths that exist
    artifact,   \* filesystem: the content of index.html
    fsSeq,      \* history: 1 + the number of changes the outside world has made
    mdFiles,    \* var mdFiles []string
    fileTree,   \* var fileTree *FileNode
    mu,         \* var mu sync.RWMutex: the build holding the write lock, or NoBuild
    scanId,     \* history: the number of scans begun (mdFiles, fileTree belong to it)
    builds,     \* the rebuilds: the closures the debounce timer has started
    wpc,        \* the position of the goroutine running watchFiles
    watched,    \* the directories added to the watcher
    events,     \* watcher.Events, oldest first
    armed,      \* the number of pending timers created by time.AfterFunc
    faults,     \* history: the failures injected so far
    whist,      \* history of the watch loop, for the properties
    bench       \* one call of a function of the program taken on its own: its
                \* arguments and, once it has returned, what it returned

\* the running program
progVars == <<fs, dirsEx, artifact, fsSeq, mdFiles, fileTree, mu, scanId,
              builds, wpc, watched, events, armed, faults, whist>>

vars == <<progVars, bench>>

fsVars == <<fs, dirsEx, fsSeq>>
pubVars == <<mdFiles, fileTree, mu, scanId>>
watchVars == <<wpc, watched, armed, whist>>

\* a step with outcome ok (TRUE: no failure) is within the budget of failures
Inject(ok) ==
    /\ ok \/ faults < MaxFaults
    /\ faults' = IF ok THEN faults ELSE faults + 1

NoBuild == -1
BuildIds == 1..MaxBuilds

\* what is on disk, as an image for the scanner; bad: the unreadable directories
Image(bad) ==
    [ex   |-> {p \in MdPaths : fs[p] # 0 /\ (Parent(p) = Root \/ Parent(p) \in dirsEx)}
              \cup dirsEx
              \cup (IF artifact.exists THEN {ArtifactPath} ELSE {}),
     dirs |-> dirsEx,
     bad  |-> bad]

\* the directory read failures one scan may meet: none, or one directory
ReadFailures == {{}} \cup {{p} : p \in {Root} \cup dirsEx}

NilTree == FileNode("", "", FALSE, <<>>)
EmptyRoot == FileNode(".", ".", TRUE, <<>>)

NoArtifact ==
    [exists |-> FALSE, hasTree |-> FALSE, tree |-> <<>>, treeScan |-> 0,
     hasDocs |-> FALSE, docs |-> <<>>, docsScan |-> 0]

\* os.Create on the destination: the file exists and is empty
Truncated == [NoArtifact EXCEPT !.exists = TRUE]

Complete(a) == a.exists /\ a.hasTree /\ a.hasDocs

\* the HTML renderMarkdownFile returns for a file with the given content
Html(filePath, content) == [Kind |-> "html", Of |-> filePath, Content |-> content]

\* the running program calls its functions itself: no call is taken on its own
NoBench == [fn |-> "none"]

IdleBuild ==
    [pc        |-> "idle",
     pending   |-> <<>>,    \* paths the scan has found and not yet appended to mdFiles
     treeJSON  |-> <<>>,    \* generateHTML: treeJSON
     files     |-> <<>>,    \* generateHTML: the slice the range loop iterates over
     i         |-> 0,       \* generateHTML: the files of the loop done so far
     filesData |-> <<>>,    \* generateHTML: filesData
     \* history
     burst     |-> 0,       \* the qualifying events the timer of this build stood for
     fireSeq   |-> 0,       \* fsSeq when the timer fired (kept until the scan)
     late      |-> FALSE,   \* the scan read the directories no earlier than that
     treeScan  |-> 0,       \* the scan whose tree generateHTML read
     filesScan |-> 0,       \* the scan whose file list generateHTML read
     midScan   |-> FALSE,   \* generateHTML read mdFiles while a scan was running
     reads     |-> <<>>,    \* the outcome of each os.ReadFile/Convert of the loop
     before    |-> NoArtifact,  \* index.html when generateHTML reached os.Create
     failedAt  |-> "",      \* the step that returned the error
     intact    |-> TRUE]    \* when it returned, index.html was as os.Create found it

(***************************************************************************)
(* The initial state: main (lines 36-69) has scanned the directory and     *)
(* generated index.html (lines 47-56, before any other goroutine exists),  *)
(* and has started watchFiles in a goroutine of its own (line 61).  On     *)
(* disk are a.md and d/b.md, each with its first content.                  *)
(***************************************************************************)
InitFs == [p \in MdPaths |-> IF p = <<"n", "c.md">> THEN 0 ELSE 1]
InitImage ==
    [ex |-> {p \in MdPaths : InitFs[p] # 0} \cup {<<"d">>},
     dirs |-> {<<"d">>}, bad |-> {}]
InitScan == scanDirectory(Root, InitImage)

InitProgram ==
    /\ fs = InitFs
    /\ dirsEx = {<<"d">>}
    /\ fsSeq = 1
    /\ mdFiles = InitScan.files
    /\ fileTree = [EmptyRoot EXCEPT !.Children = InitScan.children]
    /\ mu = NoBuild
    /\ scanId = 1
    /\ artifact = [exists |-> TRUE,
                   hasTree |-> TRUE, tree |-> InitScan.children, treeScan |-> 1,
                   hasDocs |-> TRUE,
                   docs |-> [f \in SeqRange(InitScan.files) |-> Html(f, 1)],
                   docsScan |-> 1]
    /\ builds = [b \in BuildIds |-> IdleBuild]
    /\ wpc = "setup"
    /\ watched = {}
    /\ events = <<>>
    /\ armed = 0
    /\ faults = 0
    /\ whist = [bursts     |-> 0,     \* qualifying events that found no timer pending
                burst      |-> 0,     \* qualifying events the pending timer stands for
                errors     |-> 0,     \* errors logged by the loop
                afterError |-> 0,     \* 1: a qualifying event was handled after an
                                      \* error was logged, 2: and its timer fired
                setupErr   |-> FALSE, \* watchFiles returned from its setup
                pendScan   |-> FALSE] \* a markdown change not yet followed by a scan

Init ==
    /\ InitProgram
    /\ bench = NoBench

(***************************************************************************)
(* The outside world changes the filesystem.  A change in a directory the  *)
(* watcher has subscribed to puts one event on watcher.Events.             *)
(***************************************************************************)
Event(p, op) == [Path |-> p, Op |-> op]

Emit(p, op) ==
    IF Parent(p) \in watched THEN Append(events, Event(p, op)) ELSE events

\* a file made and filled: the watcher reports its creation, then the write
EmitAll(p, ops) ==
    IF Parent(p) \in watched
    THEN events \o [k \in 1..Len(ops) |-> Event(p, ops[k])]
    ELSE events

Exists(p) == fs[p] # 0 /\ (Parent(p) = Root \/ Parent(p) \in dirsEx)

\* a markdown file changed: what the properties remember of it
MdChanged ==
    whist' = IF wpc = "loop" THEN [whist EXCEPT !.pendScan = TRUE] ELSE whist

FsCreate(p) ==
    /\ fsSeq <= MaxChanges
    /\ fs[p] = 0 /\ (Parent(p) = Root \/ Parent(p) \in dirsEx)
    /\ fsSeq' = fsSeq + 1
    /\ fs' = [fs EXCEPT ![p] = fsSeq']
    /\ events' = EmitAll(p, <<"Create", "Write">>)
    /\ MdChanged
    /\ UNCHANGED <<dirsEx, artifact, pubVars, builds, wpc, watched, armed, faults, bench>>

FsWrite(p) ==
    /\ fsSeq <= MaxChanges
    /\ Exists(p)
    /\ fsSeq' = fsSeq + 1
    /\ fs' = [fs EXCEPT ![p] = fsSeq']
    /\ events' = Emit(p, "Write")
    /\ MdChanged
    /\ UNCHANGED <<dirsEx, artifact, pubVars, builds, wpc, watched, armed, faults, bench>>

FsRemove(p) ==
    /\ fsSeq <= MaxChanges
    /\ Exists(p)
    /\ fsSeq' = fsSeq + 1
    /\ fs' = [fs EXCEPT ![p] = 0]
    /\ events' = Emit(p, "Remove")
    /\ MdChanged
    /\ UNCHANGED <<dirsEx, artifact, pubVars, builds, wpc, watched, armed, faults, bench>>

FsMkdir(d) ==
    /\ fsSeq <= MaxChanges
    /\ d \notin dirsEx
    /\ fsSeq' = fsSeq + 1
    /\ dirsEx' = dirsEx \cup {d}
    /\ events' = Emit(d, "Create")
    /\ UNCHANGED <<fs, artifact, pubVars, builds, watchVars, faults, bench>>

(***************************************************************************)
(* rescanDirectory (lines 71-78), run by build b.                          *)
(***************************************************************************)
SetBuild(b, r) == builds' = [builds EXCEPT ![b] = r]

\* the closure has returned: its locals are gone
Returned == [IdleBuild EXCEPT !.pc = "done"]

\* the closure has logged the error of a step and returned
Failed(b, step) ==
    [IdleBuild EXCEPT !.pc = "failed", !.failedAt = step, !.burst = builds[b].burst]

\* mu.Lock(); mdFiles = []string{}; fileTree = &FileNode{...}
RescanLock(b) ==
    /\ builds[b].pc = "rescan"
    /\ mu = NoBuild
    /\ mu' = b
    /\ mdFiles' = <<>>
    /\ fileTree' = EmptyRoot
    /\ scanId' = scanId + 1
    /\ SetBuild(b, [builds[b] EXCEPT !.pc = "scan"])
    /\ UNCHANGED <<fsVars, artifact, events, watchVars, faults, bench>>

\* scanDirectory(rootDir, fileTree): the directories are read in one step;
\* the paths found reach mdFiles one append at a time (RescanAppend)
RescanScan(b) ==
    /\ builds[b].pc = "scan"
    /\ \E bad \in ReadFailures :
         LET r == scanDirectory(Root, Image(bad)) IN
         /\ Inject(bad = {})
         /\ IF r.err
            THEN \* return err, and the deferred mu.Unlock()
                 /\ mu' = NoBuild
                 /\ fileTree' = fileTree
                 /\ SetBuild(b, Failed(b, "scan"))
                 /\ whist' = whist
            ELSE /\ mu' = mu
                 /\ fileTree' = [fileTree EXCEPT !.Children = r.children]
                 /\ SetBuild(b, [builds[b] EXCEPT !.pc = "append",
                                                  !.pending = r.files,
                                                  !.late = (fsSeq >= builds[b].fireSeq),
                                                  !.fireSeq = 0])
                 /\ whist' = [whist EXCEPT !.pendScan = FALSE]
    /\ UNCHANGED <<fsVars, artifact, mdFiles, scanId, events, wpc, watched, armed, bench>>

\* mdFiles = append(mdFiles, path)
RescanAppend(b) ==
    /\ builds[b].pc = "append"
    /\ builds[b].pending # <<>>
    /\ mdFiles' = Append(mdFiles, Head(builds[b].pending))
    /\ SetBuild(b, [builds[b] EXCEPT !.pending = Tail(@)])
    /\ UNCHANGED <<fsVars, artifact, fileTree, mu, scanId, events, watchVars, faults, bench>>

\* return nil, and the deferred mu.Unlock()
RescanReturn(b) ==
    /\ builds[b].pc = "append"
    /\ builds[b].pending = <<>>
    /\ mu' = NoBuild
    /\ SetBuild(b, [builds[b] EXCEPT !.pc = "gen"])
    /\ UNCHANGED <<fsVars, artifact, mdFiles, fileTree, scanId, events, watchVars, faults, bench>>

(***************************************************************************)
(* renderMarkdownFile (lines 211-241).  readOk: os.ReadFile and Convert    *)
(* succeed on a file that exists.  The HTML of a file is determined by its *)
(* path and the content read.                                              *)
(***************************************************************************)
PathOf(filePath) == CHOOSE p \in MdPaths : PathString(p) = filePath

\* fmt.Sprintf("<p>渲染错误: %v</p>", err)
ErrorFragment(filePath) == [Kind |-> "error", Of |-> filePath, Content |-> 0]

\* return "", err
NoHtml == [Kind |-> "none", Of |-> "", Content |-> 0]

renderMarkdownFile(filePath, readOk) ==
    LET p == PathOf(filePath) IN
    IF Exists(p) /\ readOk
    THEN [err |-> FALSE, html |-> Html(filePath, fs[p])]
    ELSE [err |-> TRUE, html |-> NoHtml]

\* filesData[key] = value
MapPut(m, key, value) ==
    [k \in DOMAIN m \cup {key} |-> IF k = key THEN value ELSE m[k]]

(***************************************************************************)
(* generateHTML (lines 371-1122), run by build b.  json.Marshal of strings *)
(* and template.Parse of the constant shell do not fail; the steps that    *)
(* can fail are os.Create and the writes of t.Execute.  Two builds that    *)
(* emit at the same time write the same file through descriptors of their  *)
(* own: the file holds what was written last to each of its two segments.  *)
(***************************************************************************)
\* mu.RLock(); treeJSON, err := json.Marshal(fileTree.Children); mu.RUnlock()
GenMarshalTree(b) ==
    /\ builds[b].pc = "gen"
    /\ mu = NoBuild
    /\ SetBuild(b, [builds[b] EXCEPT !.pc = "files",
                                     !.treeJSON = fileTree.Children,
                                     !.treeScan = scanId])
    /\ UNCHANGED <<fsVars, artifact, pubVars, events, watchVars, faults, bench>>

\* for i, filePath := range mdFiles (lines 381-382): the slice is read once,
\* without the lock.  While a scan of another build is running the read races
\* with the scan's writes; it may yield the list as the scan has reset or
\* filled it so far, which is every value mdFiles takes between the steps of
\* the scan.
GenReadFiles(b) ==
    /\ builds[b].pc = "files"
    /\ SetBuild(b, [builds[b] EXCEPT !.pc = "render",
                                     !.files = mdFiles,
                                     !.i = 0,
                                     !.filesScan = scanId,
                                     !.midScan = (mu # NoBuild)])
    /\ UNCHANGED <<fsVars, artifact, pubVars, events, watchVars, faults, bench>>

\* the skipped entry of a failed file: what the loop would do without line 389
RenderStepSkipsFailed(b, readOk) ==
    LET filePath == builds[b].files[builds[b].i + 1]
        r == renderMarkdownFile(filePath, readOk)
    IN  [builds[b] EXCEPT
           !.i = @ + 1,
           !.filesData = IF r.err THEN @ ELSE MapPut(@, filePath, r.html),
           !.reads = Append(@, [Of |-> filePath, err |-> r.err, html |-> r.html])]

\* one iteration of the loop of lines 382-393
RenderStep(b, readOk) ==
    LET filePath == builds[b].files[builds[b].i + 1]
        r == renderMarkdownFile(filePath, readOk)
    IN  [builds[b] EXCEPT
           !.i = @ + 1,
           !.filesData = MapPut(@, filePath,
                                IF r.err THEN ErrorFragment(filePath) ELSE r.html),
           !.reads = Append(@, [Of |-> filePath, err |-> r.err, html |-> r.html])]

GenRender(b) ==
    /\ builds[b].pc = "render"
    /\ builds[b].i < Len(builds[b].files)
    /\ \E readOk \in BOOLEAN :
         /\ readOk \/ Exists(PathOf(builds[b].files[builds[b].i + 1]))
         /\ Inject(readOk)
         /\ SetBuild(b, RenderStep(b, readOk))
    /\ UNCHANGED <<fsVars, artifact, pubVars, events, watchVars, bench>>

\* a watcher that reports every os.Create as the creation of a file
CreateOpAlwaysCreate(existed) == "Create"

\* the event the watcher reports for os.Create(outputFile) (line 1108): the
\* truncation of the file that existed is a write, else the file is created
CreateOp(existed) == IF existed THEN "Write" ELSE "Create"

\* file, err := os.Create(outputFile): the destination is truncated (or made);
\* the watcher of the root reports it (as it reports the writes that follow,
\* with the same kind of event)
GenCreate(b) ==
    /\ builds[b].pc = "render"
    /\ builds[b].i = Len(builds[b].files)
    /\ \E ok \in BOOLEAN :
         /\ Inject(ok)
         /\ IF ok
            THEN /\ artifact' = Truncated
                 /\ events' = Emit(ArtifactPath, CreateOp(artifact.exists))
                 /\ SetBuild(b, [builds[b] EXCEPT !.pc = "write1",
                                                  !.before = artifact])
            ELSE /\ UNCHANGED <<artifact, events>>
                 /\ SetBuild(b, Failed(b, "create"))
    /\ UNCHANGED <<fsVars, pubVars, watchVars, bench>>

\* t.Execute(file, data) writes the shell up to and with the tree's JSON ...
GenWriteTree(b) ==
    /\ builds[b].pc = "write1"
    /\ \E ok \in BOOLEAN :
         /\ Inject(ok)
         /\ IF ok
            THEN /\ artifact' = [artifact EXCEPT !.exists = TRUE, !.hasTree = TRUE,
                                                 !.tree = builds[b].treeJSON,
                                                 !.treeScan = builds[b].treeScan]
                 /\ SetBuild(b, [builds[b] EXCEPT !.pc = "write2"])
            ELSE /\ UNCHANGED artifact
                 /\ SetBuild(b, [Failed(b, "write") EXCEPT
                                   !.intact = (artifact = builds[b].before)])
    /\ UNCHANGED <<fsVars, pubVars, events, watchVars, bench>>

\* ... and then the documents' JSON and the rest of the shell
GenWriteDocs(b) ==
    /\ builds[b].pc = "write2"
    /\ \E ok \in BOOLEAN :
         /\ Inject(ok)
         /\ IF ok
            THEN /\ artifact' = [artifact EXCEPT !.exists = TRUE, !.hasDocs = TRUE,
                                                 !.docs = builds[b].filesData,
                                                 !.docsScan = builds[b].filesScan]
                 /\ SetBuild(b, Returned)
            ELSE /\ UNCHANGED artifact
                 /\ SetBuild(b, [Failed(b, "write") EXCEPT
                                   !.intact = (artifact = builds[b].before)])
    /\ UNCHANGED <<fsVars, pubVars, events, watchVars, bench>>

(***************************************************************************)
(* watchFiles (lines 135-208).  The channels of the watcher are closed     *)
(* only by watcher.Close, which watchFiles defers (line 141): while the    *)
(* loop runs both are open, and the !ok branches (lines 174, 202) are not  *)
(* taken.                                                                  *)
(***************************************************************************)
\* the bytes of a path as a string: its names joined by '/'
RECURSIVE PathBytes(_)
PathBytes(p) ==
    IF Len(p) = 1 THEN Bytes(p[1])
    ELSE PathBytes(SubSeq(p, 1, Len(p) - 1)) \o <<47>> \o Bytes(p[Len(p)])

\* the directories filepath.Walk reaches in the image F and the callback does
\* not skip (lines 144-160): the root, and every directory below it that is
\* neither hidden nor reserved and lies in directories of that kind; the
\* entries of a directory that cannot be read are not visited (the callback
\* is called with the error and returns nil)
WalkDirsOf(F) ==
    {Root} \cup
    {d \in F.dirs :
       /\ Root \notin F.bad
       /\ \A k \in 1..Len(d) :
            /\ SubSeq(d, 1, k) \in F.dirs
            /\ ~IsHidden(d[k])
            /\ ~IsReservedDir(d[k])
            /\ k < Len(d) => SubSeq(d, 1, k) \notin F.bad}

\* the directories the Walk of watchFiles adds to the watcher
WalkDirs == WalkDirsOf(Image({}))

\* fsnotify.NewWatcher and the Walk that adds the directories (lines 136-165);
\* either may fail, and then watchFiles logs and returns
WatchSetup ==
    /\ wpc = "setup"
    /\ \E outcome \in {"ok", "NewWatcherError", "AddError"} :
         /\ Inject(outcome = "ok")
         /\ IF outcome = "ok"
            THEN /\ wpc' = "loop"
                 /\ watched' = WalkDirs
                 /\ whist' = whist
            ELSE /\ wpc' = "returned"
                 /\ watched' = {}
                 /\ whist' = [whist EXCEPT !.setupErr = TRUE]
    /\ UNCHANGED <<fsVars, artifact, pubVars, builds, events, armed, bench>>

\* a condition that compares the name without lowering it
QualifiesCaseSensitive(event) ==
    \/ HasSuffix(PathBytes(event.Path), MdSuffix)
    \/ event.Op \in {"Create", "Remove", "Rename"}

\* the condition of lines 178-181
Qualifies(event) ==
    \/ HasSuffix(ToLower(PathBytes(event.Path)), MdSuffix)
    \/ event.Op \in {"Create", "Remove", "Rename"}

\* a handler that leaves the pending timer alone
StopTimerForgotten(n) == n

\* debounceTimer.Stop() (lines 183-185): the pending timer, if any, is cancelled
StopTimer(n) == 0

\* case event, ok := <-watcher.Events
WatchEvent ==
    /\ wpc = "loop"
    /\ events # <<>>
    /\ events' = Tail(events)
    /\ IF Qualifies(Head(events))
       THEN /\ armed' = StopTimer(armed) + 1
            /\ whist' = [whist EXCEPT
                 !.bursts = IF armed > 0 THEN @ ELSE @ + 1,
                 !.burst = IF armed > 0 THEN @ + 1 ELSE 1,
                 !.afterError = IF whist.errors > 0 /\ @ = 0 THEN 1 ELSE @]
       ELSE /\ armed' = armed
            /\ whist' = whist
    /\ UNCHANGED <<fsVars, artifact, pubVars, builds, wpc, watched, faults, bench>>

\* a handler that gives up at the first error
WatchErrorReturns ==
    /\ wpc = "loop"
    /\ Inject(FALSE)
    /\ wpc' = "returned"
    /\ whist' = [whist EXCEPT !.errors = @ + 1]
    /\ UNCHANGED <<fsVars, artifact, pubVars, builds, watched, events, armed, bench>>

\* case err, ok := <-watcher.Errors: the error is logged (lines 201-205)
WatchError ==
    /\ wpc = "loop"
    /\ Inject(FALSE)
    /\ wpc' = wpc
    /\ whist' = [whist EXCEPT !.errors = @ + 1]
    /\ UNCHANGED <<fsVars, artifact, pubVars, builds, watched, events, armed, bench>>

\* the timer created by time.AfterFunc expires: its closure (lines 186-199)
\* starts in a goroutine of its own
IdleBuilds == {b \in BuildIds : builds[b].pc = "idle"}

TimerFire ==
    /\ armed > 0
    /\ IdleBuilds # {}
    /\ LET b == CHOOSE c \in IdleBuilds : \A o \in IdleBuilds : c <= o IN
         SetBuild(b, [IdleBuild EXCEPT !.pc = "rescan", !.fireSeq = fsSeq,
                                       !.burst = whist.burst])
    /\ armed' = armed - 1
    /\ whist' = [whist EXCEPT !.burst = 0,
                              !.afterError = IF @ = 1 THEN 2 ELSE @]
    /\ UNCHANGED <<fsVars, artifact, pubVars, wpc, watched, events, faults, bench>>

Next ==
    \/ \E p \in MdPaths : FsCreate(p)
    \/ \E p \in MdPaths : FsWrite(p)
    \/ \E p \in MdPaths : FsRemove(p)
    \/ \E d \in DirPaths : FsMkdir(d)
    \/ \E b \in BuildIds : RescanLock(b)
    \/ \E b \in BuildIds : RescanScan(b)
    \/ \E b \in BuildIds : RescanAppend(b)
    \/ \E b \in BuildIds : RescanReturn(b)
    \/ \E b \in BuildIds : GenMarshalTree(b)
    \/ \E b \in BuildIds : GenReadFiles(b)
    \/ \E b \in BuildIds : GenRender(b)
    \/ \E b \in BuildIds : GenCreate(b)
    \/ \E b \in BuildIds : GenWriteTree(b)
    \/ \E b \in BuildIds : GenWriteDocs(b)
    \/ WatchSetup
    \/ WatchEvent
    \/ WatchError
    \/ TimerFire

Spec == Init /\ [][Next]_vars

(***************************************************************************)
(* The scanner and the Walk of the watcher taken on their own: one         *)
(* directory tree, scanned once by rescanDirectory (lines 71-78) and       *)
(* walked once by the setup of watchFiles (lines 144-160).  The tree is    *)
(* any part of: the markdown files a.md and B.MD, the hidden file .h.md,   *)
(* the directory d with b.md and the directory s with c.md in it, the      *)
(* directory e with x.txt and k.md, and the directories .git and           *)
(* node_modules with a markdown file each; some of its directories cannot  *)
(* be read.                                                                *)
(***************************************************************************)
\* the directories of one tree whose os.ReadDir fails
MaxUnreadable == 1

ScanFiles ==
    { <<"a.md">>, <<"B.MD">>, <<".h.md">>,
      <<"d", "b.md">>, <<"d", "s", "c.md">>,
      <<"e", "x.txt">>, <<"e", "k.md">>,
      <<".git", "g.md">>, <<"node_modules", "m.md">> }

ScanDirs ==
    { <<"d">>, <<"d", "s">>, <<"e">>, <<".git">>, <<"node_modules">> }

\* the images of directory trees: what exists lies in a directory that exists
ScanImages ==
    { [ex |-> ex, dirs |-> ex \cap ScanDirs, bad |-> bad] :
        <<ex, bad>> \in
          { t \in (SUBSET (ScanFiles \cup ScanDirs)) \X (SUBSET ({Root} \cup ScanDirs)) :
              /\ \A p \in t[1] : Len(p) > 1 => Parent(p) \in t[1]
              /\ t[2] \subseteq {Root} \cup t[1]
              /\ Cardinality(t[2]) <= MaxUnreadable } }

InitScanBench ==
    /\ InitProgram
    /\ bench \in { [fn |-> "scan", pc |-> "call", F |-> F, err |-> FALSE,
                     fileTree |-> NilTree, mdFiles |-> <<>>, watched |-> {}] :
                   F \in ScanImages }

\* rescanDirectory() on the tree bench.F
BenchRescan ==
    /\ bench.fn = "scan" /\ bench.pc = "call"
    /\ LET r == scanDirectory(Root, bench.F) IN
         bench' = [bench EXCEPT
                     !.pc = "scanned",
                     !.err = r.err,
                     !.fileTree = [EmptyRoot EXCEPT !.Children = r.children],
                     !.mdFiles = r.files]
    /\ UNCHANGED progVars

\* the Walk of watchFiles on the tree bench.F
BenchWalk ==
    /\ bench.fn = "scan" /\ bench.pc = "scanned"
    /\ bench' = [bench EXCEPT !.pc = "walked", !.watched = WalkDirsOf(bench.F)]
    /\ UNCHANGED progVars

NextScanBench ==
    \/ BenchRescan
    \/ BenchWalk

SpecScan == InitScanBench /\ [][NextScanBench]_vars

(***************************************************************************)
(* Strings of HTML.  A string is the sequence of its pieces: the           *)
(* characters the code looks for (the quote, '>', '<', '&', '/', '.') are  *)
(* pieces of their own, and a run of other characters that the code never  *)
(* looks into (a word, a name) is one piece.  Every pattern of the code    *)
(* is a sequence of whole pieces, so searching the pieces finds what       *)
(* searching the bytes finds.  Offsets count from 0, as in Go.             *)
(***************************************************************************)
Q == "\""
G == ">"

\* s[a:b], s[a:] and s[:b]
Slice(s, a, b) == SubSeq(s, a + 1, b)
From(s, a) == SubSeq(s, a + 1, Len(s))
Upto(s, b) == SubSeq(s, 1, b)

\* strings.Index(s, pat): the offset of the first pat in s, or -1
Index(s, pat) ==
    LET at == {i \in 0..(Len(s) - Len(pat)) : Slice(s, i, i + Len(pat)) = pat}
    IN  IF at = {} THEN -1 ELSE CHOOSE i \in at : \A j \in at : i <= j

\* strings.Contains(s, pat)
Contains(s, pat) == Index(s, pat) # -1

\* strings.Replace(s, old, new, 1)
Replace(s, old, new) ==
    LET i == Index(s, old)
    IN  IF i = -1 THEN s ELSE Upto(s, i) \o new \o From(s, i + Len(old))

\* strings.ReplaceAll(s, old, new), old not empty
RECURSIVE ReplaceAll(_, _, _)
ReplaceAll(s, old, new) ==
    LET i == Index(s, old)
    IN  IF i = -1 THEN s
        ELSE Upto(s, i) \o new \o ReplaceAll(From(s, i + Len(old)), old, new)

(***************************************************************************)
(* Paths as strings (package path/filepath, separator '/').                *)
(***************************************************************************)
Slash == "/"
Dot == <<".">>
DotDot == <<".", ".">>

\* the elements of a path: what lies between its separators
RECURSIVE Elements(_)
Elements(path) ==
    LET i == Index(path, <<Slash>>)
    IN  IF i = -1 THEN <<path>>
        ELSE <<Upto(path, i)>> \o Elements(From(path, i + 1))

\* the elements joined by the separator
RECURSIVE JoinElements(_)
JoinElements(elems) ==
    IF elems = <<>> THEN <<>>
    ELSE IF Len(elems) = 1 THEN elems[1]
    ELSE elems[1] \o <<Slash>> \o JoinElements(Tail(elems))

\* the elements Clean keeps, given those kept so far: empty elements and "."
\* go, ".." takes back the element before it, or goes itself at the root,
\* or stays when there is nothing to take back
RECURSIVE CleanElements(_, _, _)
CleanElements(elems, kept, rooted) ==
    IF elems = <<>> THEN kept
    ELSE
      LET e == Head(elems) IN
      IF e = <<>> \/ e = Dot THEN CleanElements(Tail(elems), kept, rooted)
      ELSE IF e = DotDot THEN
        IF kept # <<>> /\ kept[Len(kept)] # DotDot
        THEN CleanElements(Tail(elems), Upto(kept, Len(kept) - 1), rooted)
        ELSE IF rooted THEN CleanElements(Tail(elems), kept, rooted)
        ELSE CleanElements(Tail(elems), Append(kept, e), rooted)
      ELSE CleanElements(Tail(elems), Append(kept, e), rooted)

\* filepath.Clean(path)
Clean(path) ==
    IF path = <<>> THEN Dot
    ELSE
      LET rooted == path[1] = Slash
          kept == JoinElements(CleanElements(Elements(path), <<>>, rooted))
      IN  IF rooted THEN <<Slash>> \o kept
          ELSE IF kept = <<>> THEN Dot
          ELSE kept

\* filepath.Join(a, b): the elements that are not empty, joined and cleaned
Join(a, b) ==
    IF a = <<>> /\ b = <<>> THEN <<>>
    ELSE IF a = <<>> THEN Clean(b)
    ELSE IF b = <<>> THEN Clean(a)
    ELSE Clean(a \o <<Slash>> \o b)

\* filepath.Dir(path): what precedes the last separator, cleaned
Dir(path) ==
    LET seps == {i \in 1..Len(path) : path[i] = Slash}
    IN  IF seps = {} THEN Clean(<<>>)
        ELSE Clean(Upto(path, CHOOSE i \in seps : \A j \in seps : i >= j))

(***************************************************************************)
(* fixImagePaths (lines 244-324).                                          *)
(***************************************************************************)
\* the ceiling of the loop of fixImagePaths: 1000 in the source (line 255),
\* scaled to the documents of the model
maxIterations == 3

\* `<img src="`
ImgOpen == <<"<", "img ", "src=", Q>>

\* `onclick="openImageModal`
ClickMarker == <<"onclick=", Q, "openImageModal">>

\* ` class="preview-image" onclick="openImageModal(this.src)"`
PreviewAttrs ==
    <<" ", "class=", Q, "preview-image", Q, " ">> \o ClickMarker
       \o <<"(this.src)", Q>>

\* lines 290-304: the src of a relative reference imgPath of a document in mdDir
FullPath(mdDir, imgPath) ==
    LET joined ==
          IF HasPrefix(imgPath, DotDot \o <<Slash>>)
               \/ HasPrefix(imgPath, Dot \o <<Slash>>)
          THEN Join(mdDir, imgPath)
          ELSE IF mdDir # <<>> THEN Join(mdDir, imgPath)
          ELSE imgPath
        slashed == ReplaceAll(Clean(joined), <<"\\">>, <<Slash>>)
    IN  IF HasPrefix(slashed, <<Slash>>) THEN From(slashed, 1) ELSE slashed

\* line 290: the reference is rewritten
IsRelative(imgPath) ==
    /\ ~HasPrefix(imgPath, <<Slash>>)
    /\ ~HasPrefix(imgPath, <<"http:", Slash, Slash>>)
    /\ ~HasPrefix(imgPath, <<"https:", Slash, Slash>>)
    /\ ~HasPrefix(imgPath, <<"data:">>)

\* a rewrite that joins the directory and the reference without cleaning
NewTagUncleaned(originalImgTag, imgPath, mdDir) ==
    IF IsRelative(imgPath)
    THEN Replace(originalImgTag,
                 <<"src=", Q>> \o imgPath \o <<Q>>,
                 <<"src=", Q>> \o (IF mdDir = <<>> THEN imgPath
                                   ELSE mdDir \o <<Slash>> \o imgPath)
                               \o <<Q>> \o PreviewAttrs)
    ELSE Upto(originalImgTag, Len(originalImgTag) - 1) \o PreviewAttrs \o <<G>>

\* lines 289-313: the tag written for a tag that is not yet finalized
NewTag(originalImgTag, imgPath, mdDir) ==
    IF IsRelative(imgPath)
    THEN Replace(originalImgTag,
                 <<"src=", Q>> \o imgPath \o <<Q>>,
                 <<"src=", Q>> \o FullPath(mdDir, imgPath) \o <<Q>> \o PreviewAttrs)
    ELSE Upto(originalImgTag, Len(originalImgTag) - 1) \o PreviewAttrs \o <<G>>

\* a loop that drops what follows a malformed tag
MalformedRestDropped(content, tagStart) == <<>>

\* lines 269 and 276: what is written for a malformed tag at offset tagStart
MalformedRest(content, tagStart) == From(content, tagStart)

\* a loop whose `continue` for a finalized tag forgets to advance
AfterFinalizedStuck(content, tagEndPos) == content

\* line 284: content = content[tagEndPos:] for a tag that is already finalized
AfterFinalized(content, tagEndPos) == From(content, tagEndPos)

\* one iteration of the loop of lines 257-317 on its variables content,
\* result and processed; done when the iteration left the loop
fixImageStep(st) ==
    LET content == st.content
        result == st.result
    IN
    IF ~(st.processed < maxIterations)
    THEN [st EXCEPT !.done = TRUE]
    ELSE
      LET found == Index(content, ImgOpen) IN
      IF found = -1
      THEN [st EXCEPT !.result = result \o content, !.done = TRUE]
      ELSE
        LET written == result \o Upto(content, found)
            start == found + Len(ImgOpen)
            end == Index(From(content, start), <<Q>>)
        IN
        IF end = -1
        THEN [st EXCEPT
                !.result = written \o MalformedRest(content, start - Len(ImgOpen)),
                !.done = TRUE]
        ELSE
          LET imgPath == Slice(content, start, start + end)
              tagEnd == Index(From(content, start + end), <<G>>)
          IN
          IF tagEnd = -1
          THEN [st EXCEPT
                  !.result = written \o MalformedRest(content, start - Len(ImgOpen)),
                  !.done = TRUE]
          ELSE
            LET tagEndPos == start + end + tagEnd + 1
                originalImgTag == Slice(content, start - Len(ImgOpen), tagEndPos)
            IN
            IF Contains(originalImgTag, ClickMarker)
            THEN [st EXCEPT !.content = AfterFinalized(content, tagEndPos),
                            !.result = written \o originalImgTag]
            ELSE [st EXCEPT !.content = From(content, tagEndPos),
                            !.result = written
                                         \o NewTag(originalImgTag, imgPath, st.mdDir),
                            !.processed = @ + 1]

\* the loop of lines 257-317 run to its end
RECURSIVE fixImageRun(_)
fixImageRun(st) == IF st.done THEN st ELSE fixImageRun(fixImageStep(st))

\* the loop of lines 257-317 from one iteration on: what it leaves in result
\* and in processed
fixImageLoop(content, result, processed, mdDir) ==
    fixImageRun([content |-> content, result |-> result,
                 processed |-> processed, mdDir |-> mdDir, done |-> FALSE])

\* a fallback that returns what the loop has written so far
CeilingKeepsResult(htmlContent, loop) == loop.result

\* lines 319-323: at the ceiling the input is returned, else the result
CeilingFallback(htmlContent, loop) ==
    IF loop.processed >= maxIterations THEN htmlContent ELSE loop.result

fixImagePaths(htmlContent, mdFilePath) ==
    LET dir == Dir(mdFilePath)
        mdDir == IF dir = Dot THEN <<>> ELSE dir
    IN  CeilingFallback(htmlContent, fixImageLoop(htmlContent, <<>>, 0, mdDir))

(***************************************************************************)
(* processMermaidBlocks (lines 327-369).                                   *)
(***************************************************************************)
\* `<pre><code class="language-mermaid">`
MermaidOpen ==
    <<"<", "pre", G, "<", "code ", "class=", Q, "language-", "mermaid", Q, G>>

\* `<pre><code class="mermaid">`
MermaidOpenPlain ==
    <<"<", "pre", G, "<", "code ", "class=", Q, "mermaid", Q, G>>

\* `</code></pre>`
endTag == <<"<", "/code", G, "<", "/pre", G>>

\* `class="mermaid"`
ClassMermaid == <<"class=", Q, "mermaid", Q>>

IsSpace(c) == c \in {" ", "\n", "\t", "\r"}

\* strings.TrimSpace(s)
RECURSIVE TrimSpace(_)
TrimSpace(s) ==
    IF s = <<>> THEN s
    ELSE IF IsSpace(s[1]) THEN TrimSpace(Tail(s))
    ELSE IF IsSpace(s[Len(s)]) THEN TrimSpace(Upto(s, Len(s) - 1))
    ELSE s

\* lines 358-361: the entities replaced one kind after the other, then trimmed
CleanCode(codeContent) ==
    TrimSpace(
      ReplaceAll(
        ReplaceAll(
          ReplaceAll(codeContent, <<"&", "lt;">>, <<"<">>),
          <<"&", "gt;">>, <<G>>),
        <<"&", "amp;">>, <<"&">>))

\* line 364: `<div class="mermaid">` + codeContent + `</div>`
MermaidDiv(codeContent) ==
    <<"<", "div ">> \o ClassMermaid \o <<G>> \o codeContent \o <<"<", "/div", G>>

\* lines 332-339: where the loop finds its next block, or -1
FindBlock(content) ==
    LET start == Index(content, MermaidOpen)
    IN  IF start = -1 THEN Index(content, MermaidOpenPlain) ELSE start

\* one iteration of the loop of lines 331-366 on its variable content; done
\* when the iteration left the loop
MermaidStep(content) ==
    LET start == FindBlock(content) IN
    IF start = -1 THEN [content |-> content, done |-> TRUE]
    ELSE
      LET found == Index(From(content, start), endTag) IN
      IF found = -1 THEN [content |-> content, done |-> TRUE]
      ELSE
        LET end == found + start + Len(endTag)
            longStart == start + Len(MermaidOpen)
            codeStart ==
              IF Contains(Slice(content, start, longStart), ClassMermaid)
              THEN start + Len(MermaidOpenPlain)
              ELSE longStart
            codeContent == Slice(content, codeStart, end - Len(endTag))
        IN  [content |-> Upto(content, start) \o MermaidDiv(CleanCode(codeContent))
                           \o From(content, end),
             done |-> FALSE]

RECURSIVE processMermaidBlocks(_)
processMermaidBlocks(content) ==
    LET step == MermaidStep(content) IN
    IF step.done THEN step.content ELSE processMermaidBlocks(step.content)

(***************************************************************************)
(* fixImagePaths taken on its own: one rendered document, processed once   *)
(* and then once more.  A document is a sequence of parts: image tags as   *)
(* goldmark writes them, an image tag a former pass has finalized, image   *)
(* tags cut short, text, and the quote and the '>' of other markup.        *)
(***************************************************************************)
\* the parts of one document
MaxParts == 3

ImgRefs ==
    { <<"img", Slash, "a.png">>,
      <<".", ".", Slash, "img", Slash, "a.png">>,
      <<".", Slash, "a.png">>,
      <<".", ".", Slash, ".", ".", Slash, "a.png">>,
      <<Slash, "assets", Slash, "a.png">>,
      <<"https:", Slash, Slash, "x", Slash, "a.png">>,
      <<"http:", Slash, Slash, "x", Slash, "a.png">>,
      <<"data:", "x">> }

\* the documents' paths: at the root, one and two directories down, and in a
\* directory whose name is a quote followed by '>'
MdFilePaths ==
    { <<"page.md">>,
      <<"notes", Slash, "page.md">>,
      <<"notes", Slash, "sub", Slash, "page.md">>,
      <<Q, G, Slash, "page.md">> }

Part(kind, ref) == [kind |-> kind, ref |-> ref]

Parts ==
    { Part("img", r) : r \in ImgRefs }
    \cup { Part(k, <<"img", Slash, "a.png">>) : k \in {"done", "noquote", "nogt"} }
    \cup { Part(k, <<>>) : k \in {"text", "quote", "gt"} }

\* what follows the src of an image tag: ` alt="" />`
TagRest == <<" alt=", Q, Q, " /", G>>

PartHtml(part) ==
    CASE part.kind = "img"     -> ImgOpen \o part.ref \o <<Q>> \o TagRest
      [] part.kind = "done"    -> ImgOpen \o part.ref \o <<Q>> \o PreviewAttrs \o TagRest
      [] part.kind = "noquote" -> ImgOpen \o part.ref
      [] part.kind = "nogt"    -> ImgOpen \o part.ref \o <<Q, " alt=">>
      [] part.kind = "text"    -> <<"text">>
      [] part.kind = "quote"   -> <<Q>>
      [] part.kind = "gt"      -> <<G>>
      [] part.kind = "mermaid"      -> MermaidOpen \o part.ref \o endTag
      [] part.kind = "plain"        -> MermaidOpenPlain \o part.ref \o endTag
      [] part.kind = "mermaidOpen"  -> MermaidOpen \o part.ref
      [] part.kind = "plainOpen"    -> MermaidOpenPlain \o part.ref
      [] part.kind = "code"         ->
           <<"<", "pre", G, "<", "code", G>> \o part.ref \o endTag

RECURSIVE DocHtml(_)
DocHtml(doc) ==
    IF doc = <<>> THEN <<>> ELSE PartHtml(Head(doc)) \o DocHtml(Tail(doc))

Docs == UNION { [1..n -> Parts] : n \in 1..MaxParts }

InitImgBench ==
    /\ InitProgram
    /\ bench \in { [fn |-> "fixImagePaths", pc |-> "call", doc |-> doc,
                     htmlContent |-> DocHtml(doc), mdFilePath |-> f,
                     processed |-> 0, once |-> <<>>, twice |-> <<>>] :
                   doc \in Docs, f \in MdFilePaths }

\* fixImagePaths(htmlContent, mdFilePath)
BenchFix ==
    /\ bench.fn = "fixImagePaths" /\ bench.pc = "call"
    /\ bench' = [bench EXCEPT
         !.pc = "once",
         !.once = fixImagePaths(bench.htmlContent, bench.mdFilePath),
         !.processed =
            LET dir == Dir(bench.mdFilePath) IN
              fixImageLoop(bench.htmlContent, <<>>, 0,
                           IF dir = Dot THEN <<>> ELSE dir).processed]
    /\ UNCHANGED progVars

\* fixImagePaths of what fixImagePaths returned
BenchFixAgain ==
    /\ bench.fn = "fixImagePaths" /\ bench.pc = "once"
    /\ bench' = [bench EXCEPT
         !.pc = "twice",
         !.twice = fixImagePaths(bench.once, bench.mdFilePath)]
    /\ UNCHANGED progVars

NextImgBench ==
    \/ BenchFix
    \/ BenchFixAgain

SpecImg == InitImgBench /\ [][NextImgBench]_vars

(***************************************************************************)
(* processMermaidBlocks taken on its own: one rendered document of text,   *)
(* code blocks and diagram blocks of both class forms, closed or cut short *)
(* before their closing tag.                                               *)
(***************************************************************************)
\* the parts of one document of blocks
MaxBlocks == 3

\* `A --&gt; B` and a newline, as goldmark writes the line "A --> B"
TextArrow == <<"A", " ", "--", "&", "gt;", " ", "B", "\n">>

\* `&amp;lt;`, the text "&lt;" escaped
TextEscapedEntity == <<"&", "amp;", "lt;", "\n">>

\* a text with whitespace around it
TextSpaced == <<"\n", " ", "x", " ", "&", "lt;", " ", "\n">>

\* a text whose decoded form is a diagram block:
\* `&lt;pre&gt;&lt;code class="language-mermaid"&gt;&amp;lt;&lt;/code&gt;&lt;/pre&gt;`
TextOfBlock ==
    <<"&", "lt;", "pre", "&", "gt;", "&", "lt;", "code ",
      "class=", Q, "language-", "mermaid", Q, "&", "gt;",
      "&", "amp;", "lt;",
      "&", "lt;", "/code", "&", "gt;", "&", "lt;", "/pre", "&", "gt;">>

MermaidParts ==
    { Part("mermaid", t) :
        t \in {TextArrow, TextEscapedEntity, TextSpaced, TextOfBlock} }
    \cup { Part(k, TextArrow) : k \in {"plain", "mermaidOpen", "plainOpen"} }
    \cup { Part("code", <<"x">>), Part("text", <<>>) }

MermaidDocs == UNION { [1..n -> MermaidParts] : n \in 1..MaxBlocks }

InitMermaidBench ==
    /\ InitProgram
    /\ bench \in { [fn |-> "processMermaidBlocks", pc |-> "call", doc |-> doc,
                     htmlContent |-> DocHtml(doc), out |-> <<>>] :
                   doc \in MermaidDocs }

\* processMermaidBlocks(htmlContent)
BenchMermaid ==
    /\ bench.fn = "processMermaidBlocks" /\ bench.pc = "call"
    /\ bench' = [bench EXCEPT
         !.pc = "returned",
         !.out = processMermaidBlocks(bench.htmlContent)]
    /\ UNCHANGED progVars

NextMermaidBench == BenchMermaid

SpecMermaid == InitMermaidBench /\ [][NextMermaidBench]_vars

(***************************************************************************)
(* Properties.                                                             *)
(***************************************************************************)
Running(b) == builds[b].pc \notin {"idle", "done", "failed"}

Started == {b \in BuildIds : builds[b].pc # "idle"}

\* generateHTML has left its render loop and is writing the artifact
Emitting(b) == builds[b].pc \in {"write1", "write2"}

\* nothing is left to do: no event to handle, no timer pending, no build running
Quiescent ==
    /\ events = <<>>
    /\ armed = 0
    /\ \A b \in BuildIds : ~Running(b)

NoFailure == faults = 0 /\ \A b \in BuildIds : builds[b].pc # "failed"

\* C1: at most one build is in flight: the watch loop never starts a rebuild
\* while a rebuild started earlier is still running.
C1_AtMostOneBuildInFlight ==
    Cardinality({b \in BuildIds : Running(b)}) <= 1

\* C2: generateHTML never reads the file list (or the tree) of a scan that is
\* still in progress.
C2_ReadersSeeFinishedScans ==
    \A b \in BuildIds : ~builds[b].midScan

\* C3: the qualifying events that arrive while a timer is pending are coalesced:
\* each burst of them (three events, for one) leads to exactly one rebuild, and
\* the scan of that rebuild reads the directories no earlier than the moment
\* the timer fired.
C3_BurstGivesOneRebuild ==
    /\ armed <= 1
    /\ Cardinality(Started) + armed = whist.bursts
    /\ \A b \in BuildIds :
         builds[b].pc \in {"append", "gen", "files", "render", "write1", "write2"}
           => builds[b].late

C3_Witness ==
    /\ whist.bursts = 1
    /\ armed = 0
    /\ \E b \in BuildIds :
         /\ Started = {b}
         /\ builds[b].burst = 3
         /\ builds[b].pc = "gen"
         /\ builds[b].late

\* C4: in every artifact generateHTML emits, the file nodes of the tree are the
\* keys of the document map, each path once.
C4_TreeMatchesDocuments ==
    \A b \in BuildIds :
      Emitting(b) =>
        LET paths == FilePathsOf(builds[b].treeJSON) IN
        /\ SeqRange(paths) = DOMAIN builds[b].filesData
        /\ Cardinality(SeqRange(paths)) = Len(paths)

\* C5: once the events have stopped and every rebuild has finished without an
\* error, index.html is the artifact of the most recent scan.
C5_ArtifactOfLatestScan ==
    (Quiescent /\ NoFailure) =>
      /\ Complete(artifact)
      /\ artifact.treeScan = scanId
      /\ artifact.docsScan = scanId

\* C6: at every instant index.html holds a complete artifact, the previous one
\* or the new one; a reader never finds it empty or partly written.
C6_ArtifactAlwaysComplete ==
    Complete(artifact)

\* C7: when emitting the artifact fails (os.Create fails, or a write fails
\* partway), index.html still has the content it had before.
C7_FailedEmitLeavesArtifact ==
    \A b \in BuildIds :
      (builds[b].pc = "failed" /\ builds[b].failedAt \in {"create", "write"})
        => builds[b].intact

\* C8: a file that cannot be read or rendered never aborts the build: the
\* document map gets one entry for every file of the list generateHTML
\* iterates over, the error fragment for a file that failed and the rendered
\* HTML for every other file.
C8_OneEntryPerFile ==
    \A b \in BuildIds :
      LET r == builds[b] IN
      /\ r.pc = "failed" => r.failedAt \in {"scan", "create", "write"}
      /\ Emitting(b) => r.i = Len(r.files)
      /\ (r.pc = "render" \/ Emitting(b)) =>
           /\ Len(r.reads) = r.i
           /\ DOMAIN r.filesData = {r.files[k] : k \in 1..r.i}
           /\ \A k \in 1..r.i :
                /\ r.reads[k].Of = r.files[k]
                /\ r.filesData[r.files[k]] =
                     IF r.reads[k].err THEN ErrorFragment(r.files[k])
                     ELSE r.reads[k].html
                /\ ~r.reads[k].err =>
                     /\ r.reads[k].html.Kind = "html"
                     /\ r.reads[k].html.Of = r.files[k]

C8_Witness ==
    \E b \in BuildIds :
      LET r == builds[b] IN
      /\ Emitting(b)
      /\ Len(r.files) >= 2
      /\ \E k \in 1..Len(r.reads) : r.reads[k].err
      /\ \E k \in 1..Len(r.reads) : ~r.reads[k].err

\* C9: every change of a markdown file made while the watch loop runs, in a
\* directory that existed at its start or in one created later, is followed
\* by a rescan (once the events have stopped, without any error).
C9_EveryChangeRescanned ==
    (Quiescent /\ NoFailure /\ wpc = "loop") => ~whist.pendScan

Scanned == bench.fn = "scan" /\ bench.pc # "call"
Walked == bench.fn = "scan" /\ bench.pc = "walked"

\* every node of a list of nodes and of their subtrees
RECURSIVE AllNodes(_)
AllNodes(nodes) ==
    IF nodes = <<>> THEN {}
    ELSE {Head(nodes)} \cup AllNodes(Head(nodes).Children)
                       \cup AllNodes(Tail(nodes))

\* the nodes of the tree the scan built, the root left out
TreeNodes == AllNodes(bench.fileTree.Children)

\* p is d or lies beneath d
Beneath(p, d) == Len(p) >= Len(d) /\ SubSeq(p, 1, Len(d)) = d

\* the entry p of the tree F is excluded by its name: the name begins with
\* '.' (byte 46) and is not ".", or p is a directory named node_modules or .git
Excluded(p, F) ==
    \/ Bytes(BaseName(p))[1] = 46 /\ BaseName(p) # "."
    \/ p \in F.dirs /\ BaseName(p) \in {"node_modules", ".git"}

\* the scan descends into d: d is the root or a directory that is not
\* excluded, below directories of that kind, all of them readable
Open(d, F) ==
    \A k \in 0..Len(d) :
       LET a == SubSeq(d, 1, k) IN
         /\ a \notin F.bad
         /\ k > 0 => a \in F.dirs /\ ~Excluded(a, F)

\* p is a markdown file the scan is to list
Eligible(p, F) ==
    /\ p \in F.ex \ F.dirs
    /\ IsMarkdown(BaseName(p))
    /\ ~Excluded(p, F)
    /\ Open(Parent(p), F)

\* C11: a scan fails exactly when the root cannot be read; a subdirectory
\* that cannot be read, at any depth, leaves neither a node in the tree nor a
\* path in the file list, for itself or for anything beneath it, and every
\* markdown file the scan can reach through readable directories is listed
\* and has its node.
C11_OnlyRootFailureFails ==
    Scanned =>
      LET F == bench.F IN
        /\ bench.err <=> Root \in F.bad
        /\ \A s \in F.bad \ {Root} : \A p \in F.ex :
             Beneath(p, s) =>
               /\ \A n \in TreeNodes : n.Path # PathString(p)
               /\ PathString(p) \notin SeqRange(bench.mdFiles)
        /\ \A p \in F.ex :
             Eligible(p, F) =>
               /\ PathString(p) \in SeqRange(bench.mdFiles)
               /\ \E n \in TreeNodes : n.Path = PathString(p) /\ ~n.IsDir

\* a scan that met an unreadable directory two levels down, with markdown
\* files in it, beside it and above it
C11_Witness ==
    /\ Scanned
    /\ bench.F.bad = {<<"d", "s">>}
    /\ {<<"d", "s", "c.md">>, <<"d", "b.md">>, <<"e", "k.md">>, <<"a.md">>}
          \subseteq bench.F.ex
    /\ ~bench.err
    /\ "d/b.md" \in SeqRange(bench.mdFiles)

\* C18: after a scan a directory other than the root has a node in the tree
\* exactly when the scan descends into it and a markdown file the scan lists
\* lies beneath it; no directory node has an empty list of children.
C18_EmptyBranchesPruned ==
    Scanned =>
      LET F == bench.F IN
        /\ \A d \in ScanDirs :
             (\E n \in TreeNodes : n.IsDir /\ n.Path = PathString(d))
             <=> /\ d \in F.dirs
                 /\ Open(d, F)
                 /\ \E p \in F.ex : Beneath(p, d) /\ Eligible(p, F)
        /\ \A n \in TreeNodes : n.IsDir => Len(n.Children) > 0

\* a scan that kept d for the file in its subdirectory s alone and dropped e,
\* which holds no markdown file
C18_Witness ==
    /\ Scanned
    /\ bench.F.bad = {}
    /\ {<<"d", "s", "c.md">>, <<"e", "x.txt">>} \subseteq bench.F.ex
    /\ {<<"d", "b.md">>, <<"e", "k.md">>} \cap bench.F.ex = {}
    /\ \E n \in TreeNodes : n.IsDir /\ n.Path = "d/s"
    /\ \A n \in TreeNodes : n.Path # "e"

\* an entry of F that is excluded or lies beneath an excluded entry
UnderExcluded(p, F) ==
    \E k \in 1..Len(p) : Excluded(SubSeq(p, 1, k), F)

\* C19: an entry whose name begins with '.', a directory named node_modules
\* or .git, and everything beneath such an entry has no node in the tree, no
\* path in the file list and no subscription of the watcher.
C19_ExcludedUntouched ==
    Scanned =>
      LET F == bench.F IN
        \A p \in F.ex :
          UnderExcluded(p, F) =>
            /\ \A n \in TreeNodes : n.Path # PathString(p)
            /\ PathString(p) \notin SeqRange(bench.mdFiles)
            /\ Walked => p \notin bench.watched

\* a scan and a Walk of a tree with a hidden file, .git and node_modules, all
\* holding markdown, beside a directory that is listed and watched
C19_Witness ==
    /\ Walked
    /\ {<<".h.md">>, <<".git", "g.md">>, <<"node_modules", "m.md">>,
        <<"d", "b.md">>} \subseteq bench.F.ex
    /\ bench.F.bad = {}
    /\ "d/b.md" \in SeqRange(bench.mdFiles)
    /\ <<"d">> \in bench.watched

\* the children of a node are in order: no file before a directory, and
\* among the directories and among the files the names ascend strictly
Ordered(children) ==
    \A i, j \in 1..Len(children) :
       i < j =>
         /\ children[i].IsDir \/ ~children[j].IsDir
         /\ children[i].IsDir = children[j].IsDir =>
              BytesLess(Bytes(children[i].Name), Bytes(children[j].Name))

\* C20: in the tree of every scan the children of every node, the root
\* included, are ordered: directories before files, names strictly ascending
\* in byte order within each group.
C20_ChildrenOrdered ==
    Scanned =>
      /\ Ordered(bench.fileTree.Children)
      /\ \A n \in TreeNodes : Ordered(n.Children)

\* a scan whose root lists two directories before two files, B.MD before
\* a.md, with a pruned and a skipped directory between them on disk
C20_Witness ==
    /\ Scanned
    /\ [k \in 1..Len(bench.fileTree.Children) |-> bench.fileTree.Children[k].Name]
         = <<"d", "e", "B.MD", "a.md">>
    /\ {<<".git">>, <<"node_modules">>, <<"d", "s">>} \subseteq bench.F.ex
    /\ <<"d", "s", "c.md">> \notin bench.F.ex

(***************************************************************************)
(* Properties of fixImagePaths (SpecImg).                                  *)
(***************************************************************************)
Fixed == bench.fn = "fixImagePaths" /\ bench.pc # "call"
FixedTwice == bench.fn = "fixImagePaths" /\ bench.pc = "twice"

\* the parts of the document of the given kinds
PartsOfKind(doc, kinds) == {k \in 1..Len(doc) : doc[k].kind \in kinds}

\* the references the claim calls absolute: they begin with '/', 'http://',
\* 'https://' or 'data:'
AbsoluteRefs ==
    { <<Slash, "assets", Slash, "a.png">>,
      <<"https:", Slash, Slash, "x", Slash, "a.png">>,
      <<"http:", Slash, Slash, "x", Slash, "a.png">>,
      <<"data:", "x">> }

\* the normalization of the directory of the document joined with the
\* reference, written out for every document and every relative reference of
\* the model: img/a.png, ../img/a.png, ./a.png and ../../a.png, in this order
ExpectedSrc(mdFilePath, ref) ==
    LET at == CASE ref = <<"img", Slash, "a.png">> -> 1
                [] ref = <<".", ".", Slash, "img", Slash, "a.png">> -> 2
                [] ref = <<".", Slash, "a.png">> -> 3
                [] ref = <<".", ".", Slash, ".", ".", Slash, "a.png">> -> 4
    IN
    CASE mdFilePath = <<"page.md">> ->
           << <<"img", Slash, "a.png">>,
              <<".", ".", Slash, "img", Slash, "a.png">>,
              <<"a.png">>,
              <<".", ".", Slash, ".", ".", Slash, "a.png">> >>[at]
      [] mdFilePath = <<"notes", Slash, "page.md">> ->
           << <<"notes", Slash, "img", Slash, "a.png">>,
              <<"img", Slash, "a.png">>,
              <<"notes", Slash, "a.png">>,
              <<".", ".", Slash, "a.png">> >>[at]
      [] mdFilePath = <<"notes", Slash, "sub", Slash, "page.md">> ->
           << <<"notes", Slash, "sub", Slash, "img", Slash, "a.png">>,
              <<"notes", Slash, "img", Slash, "a.png">>,
              <<"notes", Slash, "sub", Slash, "a.png">>,
              <<"a.png">> >>[at]
      [] mdFilePath = <<Q, G, Slash, "page.md">> ->
           << <<Q, G, Slash, "img", Slash, "a.png">>,
              <<"img", Slash, "a.png">>,
              <<Q, G, Slash, "a.png">>,
              <<".", ".", Slash, "a.png">> >>[at]

\* what the claim expects for one part: an image tag with the src of the
\* table and the added attributes after it, or, for an absolute reference,
\* the tag as it was with the attributes before its '>'; a finalized tag and
\* text as they were
ExpectedPart(part, mdFilePath) ==
    IF part.kind = "img"
    THEN IF part.ref \in AbsoluteRefs
         THEN ImgOpen \o part.ref \o <<Q, " alt=", Q, Q, " /">>
                \o PreviewAttrs \o <<G>>
         ELSE ImgOpen \o ExpectedSrc(mdFilePath, part.ref) \o <<Q>>
                \o PreviewAttrs \o <<" alt=", Q, Q, " /", G>>
    ELSE PartHtml(part)

RECURSIVE ExpectedHtml(_, _)
ExpectedHtml(doc, mdFilePath) ==
    IF doc = <<>> THEN <<>>
    ELSE ExpectedPart(Head(doc), mdFilePath) \o ExpectedHtml(Tail(doc), mdFilePath)

\* a document of image tags, finalized tags and text, with fewer image tags
\* than the ceiling
WellFormedBelowCeiling(doc) ==
    /\ PartsOfKind(doc, {"img", "done", "text"}) = 1..Len(doc)
    /\ Cardinality(PartsOfKind(doc, {"img"})) < maxIterations

\* C12: in a well-formed document below the ceiling every image tag is
\* rewritten: a reference that begins with none of '/', 'http://', 'https://'
\* and 'data:' gets as src the normalization of the document's directory
\* joined with the reference, any other reference keeps its src, and both get
\* the preview class and the click handler; the rest of the document is
\* unchanged.
C12_ReferencesRewritten ==
    Fixed /\ WellFormedBelowCeiling(bench.doc)
      => bench.once = ExpectedHtml(bench.doc, bench.mdFilePath)

\* the document notes/sub/page.md with ../img/a.png and /assets/a.png, rewritten
C12_Witness ==
    /\ Fixed
    /\ bench.mdFilePath = <<"notes", Slash, "sub", Slash, "page.md">>
    /\ bench.doc = << Part("img", <<".", ".", Slash, "img", Slash, "a.png">>),
                      Part("text", <<>>),
                      Part("img", <<Slash, "assets", Slash, "a.png">>) >>
    /\ Contains(bench.once,
                <<"src=", Q, "notes", Slash, "img", Slash, "a.png", Q>>)
    /\ bench.once # bench.htmlContent

\* C13: processing the output of fixImagePaths once more, for the same
\* document path, returns it byte for byte.
C13_TwiceIsOnce ==
    FixedTwice => bench.twice = bench.once

\* C14: when the loop of fixImagePaths has reached its ceiling, the function
\* returns its input: neither a cut nor a partly rewritten document.
C14_CeilingReturnsInput ==
    Fixed /\ bench.processed >= maxIterations
      => bench.once = bench.htmlContent

\* a document of ceiling-many relative image tags, which the loop had
\* rewritten before the function returned the input
C14_Witness ==
    /\ Fixed
    /\ bench.processed >= maxIterations
    /\ Len(bench.doc) = maxIterations
    /\ \A k \in 1..Len(bench.doc) :
         bench.doc[k] = Part("img", <<"img", Slash, "a.png">>)
    /\ bench.mdFilePath = <<"notes", Slash, "page.md">>
    /\ bench.once = bench.htmlContent

\* the first tag of the document that the loop finds malformed is its part k:
\* before it lie image tags, finalized tags and text, fewer image tags than
\* the ceiling, and after it no quote (for a tag without the closing quote of
\* src) or no '>' (for a tag without its closing '>')
MalformedAt(doc, k) ==
    /\ k \in 1..Len(doc)
    /\ doc[k].kind \in {"noquote", "nogt"}
    /\ WellFormedBelowCeiling(SubSeq(doc, 1, k - 1))
    /\ \A j \in (k + 1)..Len(doc) :
         doc[j].kind \in (IF doc[k].kind = "noquote" THEN {"text", "gt"}
                                                       ELSE {"text", "quote"})

Mermaided == bench.fn = "processMermaidBlocks" /\ bench.pc = "returned"

\* the text of each diagram block of the model with &lt;, &gt; and &amp;
\* decoded once and the whitespace around it removed, written out
DecodedOnce(text) ==
    CASE text = TextArrow -> <<"A", " ", "--", G, " ", "B">>
      [] text = TextEscapedEntity -> <<"&", "lt;">>
      [] text = TextSpaced -> <<"x", " ", "<">>
      [] text = TextOfBlock ->
           MermaidOpen \o <<"&", "lt;">> \o endTag

\* what the claims expect of a document whose blocks cut short are followed
\* by no closing tag: every closed diagram block before the first one cut
\* short is a wrapper around its decoded text, everything else is unchanged
RECURSIVE ExpectedBlocks(_)
ExpectedBlocks(doc) ==
    IF doc = <<>> THEN <<>>
    ELSE IF Head(doc).kind \in {"mermaidOpen", "plainOpen"} THEN DocHtml(doc)
    ELSE (IF Head(doc).kind \in {"mermaid", "plain"}
          THEN MermaidDiv(DecodedOnce(Head(doc).ref))
          ELSE PartHtml(Head(doc)))
         \o ExpectedBlocks(Tail(doc))

\* the blocks cut short are unclosed: no closing tag follows them
CutBlocksUnclosed(doc) ==
    \A k \in PartsOfKind(doc, {"mermaidOpen", "plainOpen"}) :
       \A j \in (k + 1)..Len(doc) : doc[j].kind \notin {"mermaid", "plain", "code"}

\* C16: in a document whose diagram blocks hold plain diagram text, every
\* closed diagram block, of either class form, before the first unclosed one
\* is replaced by a wrapper, and the document from the first unclosed block
\* on is left as it was.
C16_LeftToRight ==
    /\ Mermaided
    /\ CutBlocksUnclosed(bench.doc)
    /\ \A k \in 1..Len(bench.doc) : bench.doc[k].ref # TextOfBlock
    => bench.out = ExpectedBlocks(bench.doc)

C21_WriteLockOnlyToPublish ==
    \A b \in BuildIds : builds[b].pc \in {"scan", "append"} => mu # b

\* C24: after a rebuild whose scan failed, the first since the program
\* started, the tree and the file list are those of the last scan that
\* succeeded, the one of main.
C24_FailedScanKeepsPublished ==
    \A b \in BuildIds :
       /\ Started = {b}
       /\ builds[b].pc = "failed"
       /\ builds[b].failedAt = "scan"
       => /\ mdFiles = InitScan.files
          /\ fileTree.Children = InitScan.children

(***************************************************************************)
(* Properties of the rewritten src and of the ceiling (SpecImg).           *)
(***************************************************************************)
\* the image tags of the document all carry relative references
OnlyRelativeRefs(doc) ==
    \A k \in PartsOfKind(doc, {"img"}) : doc[k].ref \notin AbsoluteRefs

\* C25: the src written for a relative reference stays inside the source
\* root: in the output of a well-formed document of relative references no
\* src begins with '/' and none has a '..' segment.
C25_SrcInsideRoot ==
    Fixed /\ WellFormedBelowCeiling(bench.doc) /\ OnlyRelativeRefs(bench.doc)
      => /\ ~Contains(bench.once, <<"src=", Q, Slash>>)
         /\ ~Contains(bench.once, <<"src=", Q, ".", ".", Slash>>)
         /\ ~Contains(bench.once, <<Slash, ".", ".", Slash>>)

\* C26: a well-formed document with at most ceiling-many image tags that are
\* not yet finalized, exactly ceiling-many included, is returned with every
\* image tag rewritten and carrying the click handler.
C26_UpToCeilingRewritten ==
    /\ Fixed
    /\ PartsOfKind(bench.doc, {"img", "done", "text"}) = 1..Len(bench.doc)
    /\ Cardinality(PartsOfKind(bench.doc, {"img"})) <= maxIterations
    => bench.once = ExpectedHtml(bench.doc, bench.mdFilePath)

(***************************************************************************)
(* The loop of watchFiles taken on its own (lines 171-207): the watcher    *)
(* is set up, watcher.Events holds a queue of events of any kind on        *)
(* markdown and other files, and the debounce timer is pending or not.     *)
(***************************************************************************)
\* the events queued when the loop is observed
MaxQueue == 2

\* event.Name
WatchPaths ==
    { <<"a.md">>, <<"B.MD">>, <<"d", "b.md">>,
      <<"x.txt">>, <<"index.html">>, <<"d">> }

\* event.Op
WatchOps == {"Create", "Write", "Remove", "Rename", "Chmod"}

WatchQueues ==
    UNION { [1..n -> {Event(p, op) : p \in WatchPaths, op \in WatchOps}] :
            n \in 0..MaxQueue }

InitWatchBench ==
    /\ fs = InitFs
    /\ dirsEx = {<<"d">>}
    /\ fsSeq = 1
    /\ mdFiles = InitScan.files
    /\ fileTree = [EmptyRoot EXCEPT !.Children = InitScan.children]
    /\ mu = NoBuild
    /\ scanId = 1
    /\ artifact = [exists |-> TRUE,
                   hasTree |-> TRUE, tree |-> InitScan.children, treeScan |-> 1,
                   hasDocs |-> TRUE,
                   docs |-> [f \in SeqRange(InitScan.files) |-> Html(f, 1)],
                   docsScan |-> 1]
    /\ builds = [b \in BuildIds |-> IdleBuild]
    /\ wpc = "loop"
    /\ watched = WalkDirs
    /\ faults = 0
    /\ \E q \in WatchQueues, timer \in {0, 1} :
         /\ events = q
         /\ armed = timer
         /\ whist = [bursts |-> timer, burst |-> timer, errors |-> 0,
                     afterError |-> 0, setupErr |-> FALSE, pendScan |-> FALSE]
         /\ bench = [fn |-> "watchFiles", queue |-> q, timer |-> timer]

NextWatchBench == WatchEvent

SpecWatch == InitWatchBench /\ [][NextWatchBench]_vars

(***************************************************************************)
(* Properties of the watch loop (SpecWatch).                               *)
(***************************************************************************)
\* the events the claim lets trigger a rebuild: those of the markdown files
\* a.md, B.MD and d/b.md, and those that create, remove or rename
TriggersRebuild(event) ==
    \/ event.Path \in { <<"a.md">>, <<"B.MD">>, <<"d", "b.md">> }
    \/ event.Op \in {"Create", "Remove", "Rename"}

TextOfOpen ==
    <<"&", "lt;", "pre", "&", "gt;", "&", "lt;", "code ",
      "class=", Q, "language-", "mermaid", Q, "&", "gt;", "x">>

\* a text whose decoded form is the closing tag of a block
TextOfClose ==
    <<"x", "&", "lt;", "/code", "&", "gt;", "&", "lt;", "/pre", "&", "gt;">>

LoopMermaidDocs ==
    UNION { [1..n -> MermaidParts \cup { Part("mermaid", TextOfOpen),
                                         Part("mermaid", TextOfClose) }] :
            n \in 1..MaxBlocks }

InitLoopBench ==
    /\ InitProgram
    /\ \/ \E doc \in Docs, f \in MdFilePaths :
            bench = [fn |-> "loops", loop |-> "fixImagePaths", doc |-> doc,
                     htmlContent |-> DocHtml(doc), iter |-> 0,
                     st |-> [content |-> DocHtml(doc), result |-> <<>>,
                             processed |-> 0,
                             mdDir |-> IF Dir(f) = Dot THEN <<>> ELSE Dir(f),
                             done |-> FALSE]]
       \/ \E doc \in LoopMermaidDocs :
            bench = [fn |-> "loops", loop |-> "processMermaidBlocks", doc |-> doc,
                     htmlContent |-> DocHtml(doc), iter |-> 0,
                     st |-> [content |-> DocHtml(doc), done |-> FALSE]]

\* one iteration of the for loop of fixImagePaths
BenchFixIteration ==
    /\ bench.fn = "loops" /\ bench.loop = "fixImagePaths"
    /\ ~bench.st.done
    /\ bench' = [bench EXCEPT !.st = fixImageStep(@), !.iter = @ + 1]
    /\ UNCHANGED progVars

\* one iteration of the for loop of processMermaidBlocks
BenchMermaidIteration ==
    /\ bench.fn = "loops" /\ bench.loop = "processMermaidBlocks"
    /\ ~bench.st.done
    /\ bench' = [bench EXCEPT !.st = MermaidStep(@.content), !.iter = @ + 1]
    /\ UNCHANGED progVars

NextLoopBench ==
    \/ BenchFixIteration
    \/ BenchMermaidIteration

SpecLoops == InitLoopBench /\ [][NextLoopBench]_vars

(***************************************************************************)
(* Properties of the loops (SpecLoops).                                    *)
(***************************************************************************)
\* how many times sub occurs in s, counted from the left without overlap
RECURSIVE Occurrences(_, _)
Occurrences(s, sub) ==
    LET i == Index(s, sub) IN
    IF i = -1 THEN 0 ELSE 1 + Occurrences(From(s, i + Len(sub)), sub)

\* C22: both loops end after a number of iterations bounded by the input:
\* the loop of fixImagePaths runs at most once per `<img src="` of the input
\* and once more, the loop of processMermaidBlocks at most once per token of
\* the input, and every iteration but the last leaves less to process.
C22_LoopsTerminate ==
    bench.fn = "loops" =>
      /\ bench.loop = "fixImagePaths" =>
           /\ bench.iter <= Occurrences(bench.htmlContent, ImgOpen) + 1
           /\ ~bench.st.done =>
                Len(bench.st.content) + 4 * bench.iter <= Len(bench.htmlContent)
      /\ bench.loop = "processMermaidBlocks" =>
           /\ bench.iter <= Len(bench.htmlContent)
           /\ ~bench.st.done =>
                Len(bench.st.content) + bench.iter <= Len(bench.htmlContent)

\* the loop of processMermaidBlocks has ended on a block whose decoded text
\* is a block: one iteration for the block, one for the block it decoded to,
\* and the one that finds no more
C22_Witness ==
    /\ bench.fn = "loops"
    /\ bench.loop = "processMermaidBlocks"
    /\ bench.doc = << Part("mermaid", TextOfBlock) >>
    /\ bench.st.done
    /\ bench.iter = 3

(***************************************************************************)
(* The program once the outside world is quiet: the watch loop runs, the   *)
(* last external change has left one event on watcher.Events, and nothing  *)
(* but the program itself touches the filesystem from here on.  The last   *)
(* change was a write to a.md, or the removal of index.html.  The Go       *)
(* scheduler runs every runnable goroutine and the runtime fires every     *)
(* timer that stays armed, hence the weak fairness of each step.           *)
(***************************************************************************)
InitQuiet ==
    \E deleted \in BOOLEAN :
       /\ fs = IF deleted THEN InitFs ELSE [InitFs EXCEPT ![<<"a.md">>] = 2]
       /\ dirsEx = {<<"d">>}
       /\ fsSeq = 2
       /\ mdFiles = InitScan.files
       /\ fileTree = [EmptyRoot EXCEPT !.Children = InitScan.children]
       /\ mu = NoBuild
       /\ scanId = 1
       /\ artifact =
            IF deleted THEN NoArtifact
            ELSE [exists |-> TRUE,
                  hasTree |-> TRUE, tree |-> InitScan.children, treeScan |-> 1,
                  hasDocs |-> TRUE,
                  docs |-> [f \in SeqRange(InitScan.files) |-> Html(f, 1)],
                  docsScan |-> 1]
       /\ builds = [b \in BuildIds |-> IdleBuild]
       /\ wpc = "loop"
       /\ watched = WalkDirs
       /\ events = IF deleted THEN <<Event(ArtifactPath, "Remove")>>
                   ELSE <<Event(<<"a.md">>, "Write")>>
       /\ armed = 0
       /\ faults = 0
       /\ whist = [bursts |-> 0, burst |-> 0, errors |-> 0, afterError |-> 0,
                   setupErr |-> FALSE, pendScan |-> ~deleted]
       /\ bench = [fn |-> "quiet", deleted |-> deleted]

\* the steps of the goroutine of build b, but for the reading of the
\* directories
BuildStep(b) ==
    \/ RescanLock(b) \/ RescanAppend(b) \/ RescanReturn(b)
    \/ GenMarshalTree(b) \/ GenReadFiles(b) \/ GenRender(b)
    \/ GenCreate(b) \/ GenWriteTree(b) \/ GenWriteDocs(b)

\* WF_vars(RescanScan(b)) written out: RescanScan(b) is enabled exactly when
\* build b is at its scan, and it leaves the scan, so its weak fairness is
\* that b is not at its scan for ever
ScanReturns(b) == []<>(builds[b].pc # "scan")

NextQuiet ==
    \/ \E b \in BuildIds : RescanLock(b)
    \/ \E b \in BuildIds : RescanScan(b)
    \/ \E b \in BuildIds : RescanAppend(b)
    \/ \E b \in BuildIds : RescanReturn(b)
    \/ \E b \in BuildIds : GenMarshalTree(b)
    \/ \E b \in BuildIds : GenReadFiles(b)
    \/ \E b \in BuildIds : GenRender(b)
    \/ \E b \in BuildIds : GenCreate(b)
    \/ \E b \in BuildIds : GenWriteTree(b)
    \/ \E b \in BuildIds : GenWriteDocs(b)
    \/ WatchEvent
    \/ TimerFire

SpecQuiet ==
    /\ InitQuiet
    /\ [][NextQuiet]_vars
    /\ WF_vars(WatchEvent)
    /\ WF_vars(TimerFire)
    /\ \A b \in BuildIds : WF_vars(BuildStep(b))
    /\ \A b \in BuildIds : ScanReturns(b)

(***************************************************************************)
(* Properties of the quiet program (SpecQuiet).                            *)
(***************************************************************************)
\* C27: once the outside world is quiet the program comes to rest and stays
\* there: from some point on no event is queued, no timer is pending and no
\* rebuild runs, also when index.html had been removed and the rebuild
\* creates it anew.
C27_EventuallyIdle == <>[]Quiescent

\* index.html had been removed: the rebuild for its removal created it, the
\* rebuild for that creation truncated and rewrote it, and the program rests
C27_Witness ==
    /\ bench.fn = "quiet"
    /\ bench.deleted
    /\ Quiescent
    /\ \A b \in BuildIds : builds[b].pc = "done"
    /\ Complete(artifact)
====
